---- MODULE Spec2Model ----
(***************************************************************************)
(* Model of the ChaChing content script (src/src/content/main.js, the      *)
(* v2.3.0 class ChachingContentScript at lines 457-983) together with the  *)
(* helpers it calls (ChachingUtils.debounce, ProductDetector               *)
(* .detectBrandOnPage).  One page context: one controller object, the      *)
(* document it runs in, the timers it arms, the durable dismissal store.   *)
(*                                                                         *)
(* Every handler runs to completion (one action); an `await` splits a      *)
(* handler in two actions.  Timers are pending callbacks that fire at some *)
(* later turn of the event loop.  The wall clock advances in steps of      *)
(* TickMs (five minutes), and only between the program's timers: every     *)
(* delay of the program is at most three seconds.                          *)
(***************************************************************************)
EXTENDS Integers, Sequences, FiniteSets, TLC

(* ---- bounds of the model ---- *)
MaxRuns == 2        \* startDetection() runs in one page context
MaxTicks == 3       \* clock steps
MaxBrands == 3      \* entries of a `brands` array
MaxNameLen == 3     \* characters of a name given to normalizeBrand

TickMs == 5 * 60 * 1000

(* ---- program constants ---- *)
fifteenMinutes == 15 * 60 * 1000
DebounceDelay == 500
RetryDelay == 3000
SettleDelay == 1000
FadeOutDelay == 300
ZRecheckDelay1 == 500
ZRecheckDelay2 == 1500
ZMutationDelay == 100
AutoHideDelay == 8000
ZFloor == 2147483640
\* a CSS <integer> is a 32-bit value: z-index holds at most 2^31 - 1
MaxCssInteger == 2147483647

URLS == {"https://shop.test/a", "https://shop.test/b"}
currentDomain == "shop.test"

\* every element is appended by a showNotification() call of a detection run
ElIds == 1..MaxRuns

VARIABLES
  phase,              \* init(): "loading" (awaiting loadPreferences), "active", "off"
  preferences,        \* this.preferences: enabled, blacklistedDomains
  autoShow,           \* this.preferences.autoShow
  url,                \* window.location.href
  lastUrl,            \* observeUrlChanges: lastUrl
  now,                \* wall clock, ms
  detectionResult,    \* this.detectionResult
  notificationShown,  \* this.notificationShown
  els,                \* the notification elements created so far
  timers,             \* pending setTimeout callbacks
  showPending,        \* showNotification() calls suspended at `await getStorageData`, with
                      \* the page-view each one began in
  store,              \* chrome.storage.local, the dismissal_<url> keys
  page,               \* the document's top-level nodes other than notifications
  nextRun,            \* history: startDetection() runs so far (names their timers)
  navs,               \* history: URL changes the poll has seen (page-view number)
  lastOp              \* history: what the last step did, when it was a showNotification()
                      \* call, its resumption or a click; "other" after any other step
VARIABLES
  response,           \* what handleMessage last passed to sendResponse
  dismissed           \* history: a notification was dismissed by a click since the last
                      \* URL-change reset or RE_DETECT

controllerVars == <<phase, preferences, autoShow, url, lastUrl, now, detectionResult, notificationShown,
          els, timers, showPending, store, page, nextRun, navs, lastOp, response, dismissed>>

\* the detector (src/content/detector.js) and the brand catalog it reads
VARIABLES
  brandSource,        \* what fetching and reading BrandList.csv yields
  brandObjects,       \* the `brands` array of {name, cashback} objects
  brandRecords,       \* SUPPORTED_BRANDS_MAP: the record under each key
  catalog,            \* SUPPORTED_BRANDS_MAP: its keys, in insertion order
  brandArray,         \* SUPPORTED_BRANDS_ARRAY
  pageTitle,          \* what extractProductTitle() finds before it trims
  pageEvidence,       \* the brand texts the other strategies find on the page
  candidates,         \* findAllBrandCandidates(): the candidates gathered
  bestBrand,          \* determineBestBrandByVotes(): the record returned
  brandResult,        \* detectBrandOnPage(): what it returns
  dstep               \* "unloaded", then detectBrandOnPage(): "idle", "gathered",
                      \* "voted", "returned"

detectorVars == <<brandSource, brandObjects, brandRecords, catalog, brandArray, pageTitle, pageEvidence, candidates,
                  bestBrand, brandResult, dstep>>

\* the product-page scorer (js/content.js, class ProductDetector)
VARIABLES
  pageSignals,        \* what each signal detector meets on the page
  pdpResult,          \* detectProductPage(): the result object
  pstep               \* "off", or detectProductPage(): "idle", "done"

pdpVars == <<pageSignals, pdpResult, pstep>>

\* ChachingUtils.normalizeBrand (shared/utils.js) applied to a name and to its result
VARIABLES
  rawName,            \* the string given
  normalizedOnce,     \* normalizeBrand(rawName)
  normalizedTwice,    \* normalizeBrand(normalizeBrand(rawName))
  nstep               \* "off", or "idle", "once", "twice"

normVars == <<rawName, normalizedOnce, normalizedTwice, nstep>>

\* the background worker (src/background/main.js) and the tab it watches
VARIABLES
  excludedDomains,    \* EXCLUDED_DOMAINS
  tabHost,            \* new URL(tab.url).hostname
  tabOpen,            \* the tab has not been closed
  detectedProducts,   \* the keys of the detectedProducts map
  handlers,           \* the onUpdated handlers started: where each one is
  skipped             \* history: an onUpdated handler returned at the exclusion check

backgroundVars == <<excludedDomains, tabHost, tabOpen, detectedProducts, handlers, skipped>>

vars == <<controllerVars, detectorVars, pdpVars, normVars, backgroundVars>>

(* ---- values ---- *)
\* detectBrandOnPage(): null, or {isSupported: true, productInfo: {brand, title, cashback}}
NullResult == [isNull |-> TRUE, isSupported |-> FALSE, title |-> "", brand |-> ""]
Supported(t) == [isNull |-> FALSE, isSupported |-> TRUE, title |-> t, brand |-> "nike"]
\* extractProductTitle() ends in document.title.trim(), which may be empty
Titles == {"", "Air Max"}
detectBrandOnPage == {NullResult} \cup {Supported(t) : t \in Titles}

\* Date.prototype.toISOString / new Date(iso).getTime(): seconds and milliseconds
toISOString(t) == [sec |-> t \div 1000, ms |-> t % 1000]
getTime(iso) == iso.sec * 1000 + iso.ms

NoRecord == [present |-> FALSE, timestamp |-> toISOString(0)]
DismissalData(t) == [present |-> TRUE, timestamp |-> toISOString(t)]

\* z is parseInt(notification.style.zIndex, 10) || 0: 0 until setZIndex sets it
NoEl == [created |-> FALSE, attached |-> FALSE, hide |-> FALSE, obs |-> "none", z |-> 0]

\* a computed z-index is 'auto' or an integer
Auto == [auto |-> TRUE, n |-> 0]
ZStyle(n) == [auto |-> FALSE, n |-> n]
\* a DOM node: its own style, its light-DOM descendants, its shadow root
Leaf(st) == [element |-> TRUE, cls |-> "", style |-> st, kids |-> {},
             shadowMode |-> "none", shadowKids |-> {}]
TextNode == [Leaf(Auto) EXCEPT !.element = FALSE]
Top(n) == Leaf(ZStyle(n))
Wrapped(n) == [Leaf(Auto) EXCEPT !.kids = {Top(n)}]
Shadowed(mode, n) == [Leaf(Auto) EXCEPT !.shadowMode = mode, !.shadowKids = {Top(n)}]
\* the argument of setZIndex: undefined (scan the document) or a NodeList
WholeDocument == [all |-> TRUE, nodes |-> {}]
NodeList(ns) == [all |-> FALSE, nodes |-> ns]

Op(o, s) == [op |-> o, show |-> s]

\* the argument of sendResponse, and the type of the request it answers
NoResponse == [sent |-> FALSE]
Success(t) == [sent |-> TRUE, to |-> t, success |-> TRUE]
SuccessWith(t, v) == [sent |-> TRUE, to |-> t, success |-> TRUE, data |-> v]
Failure(t, e) == [sent |-> TRUE, to |-> t, success |-> FALSE, error |-> e]

\* a pending setTimeout: its callback, the run or element it closes over, its
\* delay, the page-view it was armed in, and for a detection timer the number
\* of the attempt it will make (isRetry is attempt 2)
Timer(k, i, d) ==
  [kind |-> k, id |-> i, delay |-> d, view |-> navs, attempt |-> 0, scan |-> WholeDocument]
DetectTimer(k, i, d, v, n) ==
  [kind |-> k, id |-> i, delay |-> d, view |-> v, attempt |-> n, scan |-> WholeDocument]
\* setTimeout(() => setZIndex(nodes), d)
ZTimer(e, d, sc) == [Timer("zcheck", e, d) EXCEPT !.scan = sc]

Attached == {e \in ElIds : els[e].attached}
FreeEls == {e \in ElIds : ~els[e].created}
Range(f) == {f[i] : i \in DOMAIN f}
Min(S) == CHOOSE x \in S : \A y \in S : x <= y
Max(S) == CHOOSE x \in S : \A y \in S : y <= x

(* ---- the detector: text, normalisation, candidates, votes ---- *)
\* a string is the sequence of its characters
nike == <<"n", "i", "k", "e">>
ugg == <<"u", "g", "g">>
ruggable == <<"r", "u", "g", "g", "a", "b", "l", "e">>

\* String.prototype.toLowerCase() on the characters the pages here use
LowerOf(c) ==
  CASE c = "A" -> "a" [] c = "E" -> "e" [] c = "G" -> "g" [] c = "I" -> "i"
    [] c = "K" -> "k" [] c = "N" -> "n" [] c = "R" -> "r" [] c = "U" -> "u"
    [] OTHER -> c
toLowerCase(s) == [i \in 1..Len(s) |-> LowerOf(s[i])]

\* String.prototype.trim(): white space and line terminators off both ends
IsWhiteSpace(c) == c \in {" ", "\t", "\n"}
trim(s) ==
  LET solid == {i \in 1..Len(s) : ~IsWhiteSpace(s[i])}
  IN  IF solid = {} THEN <<>> ELSE SubSeq(s, Min(solid), Max(solid))

\* .replace(/(R)|(TM)|(C)/g, '') of normalizeBrand
\* the three glyphs are written "(R)", "(TM)" and "(C)", one character each
IsTrademarkGlyph(c) == c \in {"(R)", "(TM)", "(C)"}
KeepsChar(c) == ~IsTrademarkGlyph(c)
normalizeBrandTrimsFirst(brandName) ==
  IF brandName = <<>> THEN <<>>
  ELSE SelectSeq(trim(toLowerCase(brandName)), KeepsChar)
normalizeBrand(brandName) ==
  IF brandName = <<>> THEN <<>>
  ELSE trim(SelectSeq(toLowerCase(brandName), KeepsChar))

\* normalizeBrand not in use
NormIdle ==
  /\ rawName = <<>>
  /\ normalizedOnce = <<>>
  /\ normalizedTwice = <<>>
  /\ nstep = "off"

\* String.prototype.includes(w)
OccursAt(s, w, k) == k + Len(w) - 1 <= Len(s) /\ SubSeq(s, k, k + Len(w) - 1) = w
includes(s, w) == \E k \in 1..(Len(s) + 1) : OccursAt(s, w, k)

\* \w and \b of the regular expression: \b holds between s[i-1] and s[i] when
\* exactly one of the two is a word character
IsWordChar(c) ==
  c \in {"a", "b", "e", "g", "h", "i", "k", "l", "n", "o", "p", "r", "s", "t", "u",
         "A", "E", "G", "I", "K", "N", "R", "U"}
WordBoundary(s, i) ==
  (i > 1 /\ IsWordChar(s[i - 1])) # (i <= Len(s) /\ IsWordChar(s[i]))

\* lowerCaseTitle.match(new RegExp(`\\b${brand}\\b`, 'i')): the indexes at which
\* the pattern matches; match.index is the least of them
brandRegexMatches(lowerCaseTitle, brand) ==
  {k \in 1..Len(lowerCaseTitle) :
     /\ OccursAt(lowerCaseTitle, brand, k)
     /\ WordBoundary(lowerCaseTitle, k)
     /\ WordBoundary(lowerCaseTitle, k + Len(brand))}

\* extractProductTitle(): the first title found, trimmed
extractProductTitle(rawTitle) == trim(rawTitle)

\* extractMainDomain(hostname): the label before the last one
extractMainDomain(hostname) ==
  IF Len(hostname) = 0 THEN <<>>
  ELSE IF Len(hostname) >= 2 THEN hostname[Len(hostname) - 1]
  ELSE hostname[1]

\* a candidate is a string; the model also remembers the strategy that pushed it
Candidate(text, strategy, brand) == [text |-> text, strategy |-> strategy, brand |-> brand]

\* if (typeof brand === 'string' && brand.trim()) candidates.push(brand.trim()),
\* and the same for the content of each tag the other strategies read
PushTrimmed(texts, strategy) ==
  LET IsText(t) == trim(t) # <<>>
      found == SelectSeq(texts, IsText)
  IN  [i \in 1..Len(found) |-> Candidate(trim(found[i]), strategy, <<>>)]

\* Strategy 2: for each supported brand, in array order, the title's own
\* spelling of the first whole-word match
titleCandidates(brands, rawTitle) ==
  LET productTitle == extractProductTitle(rawTitle)
      lowerCaseTitle == toLowerCase(productTitle)
      Hit(brand) == brandRegexMatches(lowerCaseTitle, brand) # {}
      hits == IF productTitle = <<>> THEN <<>> ELSE SelectSeq(brands, Hit)
  IN  [i \in 1..Len(hits) |->
        LET index == Min(brandRegexMatches(lowerCaseTitle, hits[i]))
        IN  Candidate(SubSeq(productTitle, index, index + Len(hits[i]) - 1),
                      "title", hits[i])]

\* findAllBrandCandidates(): strategies 1 to 8 in order
findAllBrandCandidates(brands, rawTitle, evidence) ==
  LET domain == extractMainDomain(evidence.hostname)
  IN  PushTrimmed(evidence.jsonLd, "jsonLd")
        \o titleCandidates(brands, rawTitle)
        \o PushTrimmed(evidence.tags, "tags")
        \o (IF domain = <<>> THEN <<>> ELSE <<Candidate(domain, "domain", <<>>)>>)

\* the entry of SUPPORTED_BRANDS_MAP under a name: {name, cashback: 33}
NoBrand == [isNull |-> TRUE, name |-> <<>>, cashback |-> 0]
BrandRecord(name) == [isNull |-> FALSE, name |-> name, cashback |-> 33]

\* voteCounts.get(name): one vote per candidate whose normalized text includes it
voteCountOfDistinct(cands, supportedBrandName) ==
  Cardinality({cands[i].text : i \in {j \in 1..Len(cands) :
     includes(normalizeBrand(cands[j].text), supportedBrandName)}})
voteCountOf(cands, supportedBrandName) ==
  Cardinality({i \in 1..Len(cands) :
     includes(normalizeBrand(cands[i].text), supportedBrandName)})

\* a tally that enters every supported brand, voted for or not, and lets a later
\* entry with as many votes take the lead
determineBestBrandByVotesAllEntries(brands, cands) ==
  LET maxVotes == Max({voteCountOf(cands, brands[i]) : i \in 1..Len(brands)})
      winner == Max({i \in 1..Len(brands) : voteCountOf(cands, brands[i]) = maxVotes})
  IN  IF Len(cands) = 0 THEN NoBrand
      ELSE IF Len(brands) = 0 THEN NoBrand
      ELSE BrandRecord(brands[winner])
\* a winner loop that replaces the leader on votes >= maxVotes
determineBestBrandByVotesLastTie(brands, cands) ==
  LET HasVote(b) == voteCountOf(cands, b) > 0
      entries == SelectSeq(brands, HasVote)
      maxVotes == Max({voteCountOf(cands, entries[i]) : i \in 1..Len(entries)})
      winner == Max({i \in 1..Len(entries) : voteCountOf(cands, entries[i]) = maxVotes})
  IN  IF Len(cands) = 0 THEN NoBrand
      ELSE IF Len(entries) = 0 THEN NoBrand
      ELSE BrandRecord(entries[winner])
\* determineBestBrandByVotes(candidates): voteCounts holds the brands with a vote
\* in the order of SUPPORTED_BRANDS_MAP.keys(); the first entry whose votes
\* exceed every earlier entry's and are not exceeded later wins
determineBestBrandByVotes(brands, cands) ==
  LET HasVote(b) == voteCountOf(cands, b) > 0
      entries == SelectSeq(brands, HasVote)
      maxVotes == Max({voteCountOf(cands, entries[i]) : i \in 1..Len(entries)})
      winner == Min({i \in 1..Len(entries) : voteCountOf(cands, entries[i]) = maxVotes})
  IN  IF Len(cands) = 0 THEN NoBrand
      ELSE IF Len(entries) = 0 THEN NoBrand
      ELSE BrandRecord(entries[winner])

\* the detector before detectBrandOnPage() runs, with no catalog loaded
\* detectBrandOnPage(): null, or {isSupported: true, productInfo: {brand, title, cashback}}
NoDetection == [isNull |-> TRUE, isSupported |-> FALSE, brand |-> <<>>, title |-> <<>>, cashback |-> 0]
detectBrandOnPageReturn(best, rawTitle) ==
  IF best.isNull THEN NoDetection
  ELSE [isNull |-> FALSE, isSupported |-> TRUE, brand |-> best.name,
        title |-> extractProductTitle(rawTitle), cashback |-> best.cashback]

DetectorIdle ==
  /\ brandSource = [ok |-> FALSE, csv |-> <<>>]
  /\ brandObjects = <<>>
  /\ brandRecords = <<>>
  /\ catalog = <<>>
  /\ brandArray = <<>>
  /\ brandResult = NoDetection
  /\ pageTitle = <<>>
  /\ pageEvidence = [jsonLd |-> <<>>, tags |-> <<>>, hostname |-> <<>>]
  /\ candidates = <<>>
  /\ bestBrand = NoBrand
  /\ dstep = "off"

(* ---- the background worker: exclusion list, per-tab map ---- *)
\* the worker has seen no tab
BackgroundIdle ==
  /\ excludedDomains = <<>>
  /\ tabHost = <<>>
  /\ tabOpen = FALSE
  /\ detectedProducts = {}
  /\ handlers = <<>>
  /\ skipped = FALSE

\* EXCLUDED_DOMAINS.some(domain => url.hostname.includes(domain))
isExcluded(hostname, domains) ==
  \E i \in 1..Len(domains) : includes(hostname, domains[i])

\* an onUpdated handler: the call it awaits, and the reply the browser has
\* produced for that call and not yet delivered
Handler(pc, reply) == [pc |-> pc, reply |-> reply]

(* ---- the product-page scorer: ProductDetector.detectProductPage() ---- *)
\* this.weights
weights ==
  [price |-> 25, actionButton |-> 20, productTitle |-> 15, productImage |-> 10,
   metadata |-> 5, reviews |-> 10, structuredData |-> 15, urlPattern |-> 5,
   breadcrumb |-> 5]

\* this.confidenceThreshold
confidenceThreshold == 50

\* the signals in the order detectProductPage() looks for them
SignalOrder ==
  <<"price", "actionButton", "productTitle", "productImage", "metadata", "reviews",
    "structuredData", "urlPattern", "breadcrumb">>
SignalNames == Range(SignalOrder)

\* what a detector meets: nothing ("absent"), the thing it looks for ("present"),
\* or the thing in a shape its code throws on ("broken"): extractProductTitle()
\* calls cleanProductTitle() on a JSON-LD product name that is not a string, and
\* detectBreadcrumbs() reads innerText.includes of an element without innerText
CanThrow == {"productTitle", "breadcrumb"}

\* the detectors before the first one that throws, all of them if none does
ReachedSignals(signals) ==
  LET broken == {i \in 1..Len(SignalOrder) : signals[SignalOrder[i]] = "broken"}
  IN  IF broken = {} THEN 1..Len(SignalOrder) ELSE 1..(Min(broken) - 1)
Throws(signals) == \E n \in SignalNames : signals[n] = "broken"

\* score += this.weights.x for each signal found, in order
RECURSIVE scoreOf(_, _)
scoreOf(signals, n) ==
  IF n = 0 THEN 0
  ELSE scoreOf(signals, n - 1)
         + (IF signals[SignalOrder[n]] = "present" THEN weights[SignalOrder[n]] ELSE 0)

\* result.isProductPage = score >= this.confidenceThreshold
meetsThresholdStrictly(score) == score > confidenceThreshold
meetsThreshold(score) == score >= confidenceThreshold

\* a catch block that reports the score reached when the detector threw
detectProductPageKeepsPartialScore(signals) ==
  LET found == {SignalOrder[i] : i \in {j \in ReachedSignals(signals) :
                                        signals[SignalOrder[j]] = "present"}}
      score == scoreOf(signals, Cardinality(ReachedSignals(signals)))
  IN  [isProductPage |-> meetsThreshold(score),
       confidence |-> score,
       hasTitle |-> "productTitle" \in found,
       signals |-> found \ {"productTitle"}]
\* detectProductPage(): the flags and the title are set as the signals are found;
\* confidence and isProductPage are set after the last detector, inside the try,
\* and keep their initial 0 and false when a detector throws
detectProductPage(signals) ==
  LET found == {SignalOrder[i] : i \in {j \in ReachedSignals(signals) :
                                        signals[SignalOrder[j]] = "present"}}
      score == scoreOf(signals, Len(SignalOrder))
  IN  [isProductPage |-> IF Throws(signals) THEN FALSE ELSE meetsThreshold(score),
       confidence |-> IF Throws(signals) THEN 0 ELSE score,
       hasTitle |-> "productTitle" \in found,
       signals |-> found \ {"productTitle"}]

\* the result object as detectProductPage() initializes it
InitialResult == [isProductPage |-> FALSE, confidence |-> 0, hasTitle |-> FALSE, signals |-> {}]
NoSignals == [n \in SignalNames |-> "absent"]

\* the scorer not in use
PdpIdle ==
  /\ pageSignals = NoSignals
  /\ pdpResult = InitialResult
  /\ pstep = "off"

InitController ==
  /\ phase = "loading"
  /\ preferences = [enabled |-> TRUE, blacklistedDomains |-> {}]
  /\ autoShow = TRUE
  /\ url \in URLS
  /\ lastUrl = url
  /\ now = 0
  /\ detectionResult = NullResult
  /\ notificationShown = FALSE
  /\ els = [e \in ElIds |-> NoEl]
  /\ timers = {}
  /\ showPending = <<>>
  /\ store = [u \in URLS |-> NoRecord]
  /\ nextRun = 0
  /\ navs = 0
  /\ lastOp = Op("other", "none")
  /\ response = NoResponse
  /\ dismissed = FALSE

\* a document with no positioned element of its own
Init == page = {} /\ InitController /\ DetectorIdle /\ PdpIdle /\ NormIdle /\ BackgroundIdle

(* ---- helpers translated from the source ---- *)

\* isEnabledForCurrentDomain(): preferences.enabled && !blacklistedDomains.includes(domain)
isEnabledIgnoringBlacklist(enabled, blacklistedDomains) == enabled
isEnabledForCurrentDomain(enabled, blacklistedDomains) ==
  enabled /\ currentDomain \notin blacklistedDomains

\* this.detectionResult?.productInfo?.title is truthy
HasTitle(v) == ~v.isNull /\ v.title # ""

\* this.detectionResult?.isProductPage: the result of detectBrandOnPage carries no
\* such field, so the optional chain yields undefined
isProductPage(v) == "isProductPage" \in DOMAIN v /\ v["isProductPage"]

\* showNotification(), line 602: the early return
ShowReturnsEarlyNoFlag(shown, v) == ~HasTitle(v)
ShowReturnsEarly(shown, v) == shown \/ ~HasTitle(v)

\* getStorageData(key): result[key] || null, read when the request is issued
getStorageData(u) == store[u]

\* showNotification(), lines 610-619: the cooldown test made after the read
DismissedRecentlyInclusive(data, currentTime) ==
  data.present /\ currentTime - getTime(data.timestamp) <= fifteenMinutes
DismissedRecently(data, currentTime) ==
  data.present /\ currentTime - getTime(data.timestamp) < fifteenMinutes

\* showNotification() up to its await: the call either returns or suspends
showNotificationCall(shown, v, q) ==
  IF ShowReturnsEarly(shown, v) THEN q
  ELSE Append(q, [key |-> url, data |-> getStorageData(url), view |-> navs])

ShowOutcome(shown, v) == IF ShowReturnsEarly(shown, v) THEN "returned" ELSE "awaiting"

\* showNotification(), lines 647-654: the timers armed after the append (the
\* two z-index re-checks; the 100 ms timer only adds the fade-in class)
ShowTimersAutoHide(e) ==
  {ZTimer(e, ZRecheckDelay1, WholeDocument), ZTimer(e, ZRecheckDelay2, WholeDocument),
   Timer("remove", e, AutoHideDelay)}
ShowTimers(e) ==
  {ZTimer(e, ZRecheckDelay1, WholeDocument), ZTimer(e, ZRecheckDelay2, WholeDocument)}

\* ChachingUtils.debounce: the returned closure clears its own pending timeout
\* and arms a new one
debounce(ts, own, t) == (ts \ own) \cup {t}

\* hideNotification(notification) up to its setTimeout
hideNotificationLeaky(E, e) == [E EXCEPT ![e].hide = TRUE]
hideNotification(E, e) ==
  [E EXCEPT ![e].obs = IF @ = "connected" THEN "disconnected" ELSE @,
            ![e].hide = TRUE]

\* saveDismissalTime(): chrome.storage.local.set({[dismissal_<href>]: data});
\* a rejected write is caught and logged
saveDismissalTimeNoWrite(S, ok) == S
saveDismissalTime(S, ok) ==
  IF ok THEN [S EXCEPT ![url] = DismissalData(now)] ELSE S

\* startDetection(), line 581: a retry is scheduled only by the first attempt
ShouldRetryAlways(isRetry) == TRUE
ShouldRetry(isRetry) == ~isRetry

(* ---- getHighestZIndex(nodes) and setZIndex(nodes) ---- *)
\* parseInt(style.zIndex, 10): NaN for 'auto'
parseInt(st) == [nan |-> st.auto, n |-> st.n]

\* container.querySelectorAll('*'): every element below the container
querySelectorAll(children) ==
  {n \in children : n.element} \cup UNION {n.kids : n \in children}

\* an attached notification as the scan sees it: the root carries the class and
\* the inline z-index, its descendants carry neither
NotificationNode(E, e) ==
  [Leaf(IF E[e].z = 0 THEN Auto ELSE ZStyle(E[e].z))
     EXCEPT !.cls = "chaching-notification", !.kids = {Leaf(Auto)}]
Document(E, P) == P \cup {NotificationNode(E, e) : e \in {x \in ElIds : E[x].attached}}

\* findHighestZ, line 761: the scan skips the notification elements
IsOwnNotificationNever(n) == FALSE
IsOwnNotification(n) == n.cls = "chaching-notification"

\* findHighestZ(nodeList): the z-index values the loop compares with highestIndex
RECURSIVE findHighestZ(_)
findHighestZ(nodeList) ==
  UNION {IF ~n.element \/ IsOwnNotification(n) THEN {}
         ELSE (IF parseInt(n.style).nan THEN {} ELSE {parseInt(n.style).n})
              \cup (IF n.shadowMode = "open"
                      THEN findHighestZ(querySelectorAll(n.shadowKids))
                      ELSE {})
         : n \in nodeList}

getHighestZIndex(sc, doc) ==
  LET elements == IF sc.all THEN querySelectorAll(doc) ELSE sc.nodes
      highestIndex == Max({0} \cup findHighestZ(elements))
  IN  Max({highestIndex, ZFloor})

\* notification.style.zIndex = highestZ + 1: the value stored is a CSS
\* <integer>, so one more than the largest of them is stored as the largest
CssIntegerPlusOne(highestZ) ==
  IF highestZ >= MaxCssInteger THEN MaxCssInteger ELSE highestZ + 1

\* setZIndex(nodes) for element e; `highestZ + 1 > currentZ` is written
\* `highestZ >= currentZ`, the same test on integers, because highestZ + 1 may
\* be 2^31
setZIndexUnguarded(E, e, sc, doc) ==
  [E EXCEPT ![e].z = CssIntegerPlusOne(getHighestZIndex(sc, doc))]
setZIndex(E, e, sc, doc) ==
  LET highestZ == getHighestZIndex(sc, doc)
      currentZ == E[e].z
  IN  IF highestZ >= currentZ
        THEN [E EXCEPT ![e].z = CssIntegerPlusOne(highestZ)]
        ELSE E

\* outside a page mutation, a pending re-check reads and writes only what no
\* other handler reads or writes: it commutes with every other handler, and is
\* taken first
ZQuiet == ~\E t \in timers : t.kind = "zcheck"

(* ---- init() ---- *)

\* startDetection(): a fresh debounced closure, called once
startDetection(ts, r) ==
  debounce(ts, {}, DetectTimer("debounce", r, DebounceDelay, navs, 1))

\* init() after `await this.loadPreferences()`
LoadPreferences ==
  /\ ZQuiet
  /\ phase = "loading"
  /\ \E enabled \in BOOLEAN, as \in BOOLEAN, bl \in {{}, {currentDomain}} :
       /\ autoShow' = as
       /\ preferences' = [enabled |-> enabled, blacklistedDomains |-> bl]
       /\ IF isEnabledForCurrentDomain(enabled, bl)
            THEN /\ phase' = "active"
                 /\ nextRun' = nextRun + 1
                 /\ timers' = startDetection(timers, nextRun + 1)
                 /\ lastUrl' = url
            ELSE /\ phase' = "off"
                 /\ UNCHANGED <<timers, nextRun, lastUrl>>
  /\ lastOp' = Op("other", "none")
  /\ UNCHANGED <<backgroundVars, detectorVars, pdpVars, normVars, response, dismissed, url, now, detectionResult, notificationShown, els, showPending, store,
                 page, navs>>

(* ---- startDetection(): detectPage(isRetry) ---- *)
detectPage(t, isRetry) ==
  /\ ZQuiet
  /\ t \in timers
  /\ \E v \in detectBrandOnPage :
       /\ detectionResult' = v
       /\ IF v.isSupported
            THEN /\ IF autoShow /\ ~notificationShown
                      THEN /\ showPending' = showNotificationCall(notificationShown, v, showPending)
                           /\ lastOp' = Op("detectPage", ShowOutcome(notificationShown, v))
                      ELSE /\ showPending' = showPending
                           /\ lastOp' = Op("other", "none")
                 /\ timers' = timers \ {t}
            ELSE /\ showPending' = showPending
                 /\ lastOp' = Op("other", "none")
                 /\ IF ShouldRetry(isRetry)
                      THEN timers' = (timers \ {t}) \cup
                             {DetectTimer("retry", t.id, RetryDelay, t.view, t.attempt + 1)}
                      ELSE timers' = timers \ {t}
  /\ UNCHANGED <<backgroundVars, detectorVars, pdpVars, normVars, response, dismissed, phase, preferences, autoShow, url, lastUrl, now, notificationShown, els, store, page,
                 nextRun, navs>>

DebounceFire == \E t \in timers : t.kind = "debounce" /\ detectPage(t, FALSE)
RetryFire == \E t \in timers : t.kind = "retry" /\ detectPage(t, TRUE)

(* ---- showNotification() after the await ---- *)
ShowResume ==
  /\ ZQuiet
  /\ showPending # <<>>
  /\ LET c == Head(showPending) IN
       IF DismissedRecently(c.data, now)
         THEN /\ lastOp' = Op("showResume", "suppressed")
              /\ UNCHANGED <<els, notificationShown, timers>>
         ELSE /\ FreeEls # {}
              /\ LET e == Min(FreeEls) IN
                   /\ els' = [setZIndex(els, e, WholeDocument, Document(els, page))
                                EXCEPT ![e].created = TRUE,
                                       ![e].attached = TRUE,
                                       ![e].obs = "connected"]
                   /\ timers' = timers \cup ShowTimers(e)
              /\ lastOp' = Op("showResume", "appended")
              /\ notificationShown' = TRUE
  /\ showPending' = Tail(showPending)
  /\ UNCHANGED <<backgroundVars, detectorVars, pdpVars, normVars, response, dismissed, phase, preferences, autoShow, url, lastUrl, now, detectionResult, store, page, nextRun, navs>>

(* ---- the click listeners of createNotificationElement() ---- *)
ClickStopsOnRejection(e, which) ==
  /\ ZQuiet
  /\ els[e].attached
  /\ \E ok \in BOOLEAN :
       /\ store' = saveDismissalTime(store, ok)
       /\ lastOp' = Op(which, IF ok THEN "saved" ELSE "rejected")
       /\ dismissed' = (ok \/ dismissed)
       /\ els' = IF ok THEN hideNotification(els, e) ELSE els
       /\ timers' = IF ok THEN timers \cup {Timer("remove", e, FadeOutDelay)} ELSE timers
  /\ UNCHANGED <<backgroundVars, detectorVars, pdpVars, normVars, response, phase, preferences, autoShow, url, lastUrl, now, detectionResult, notificationShown,
                 showPending, nextRun, navs, page>>
Click(e, which) ==
  /\ ZQuiet
  /\ els[e].attached
  /\ \E ok \in BOOLEAN :
       /\ store' = saveDismissalTime(store, ok)
       /\ lastOp' = Op(which, IF ok THEN "saved" ELSE "rejected")
  /\ els' = hideNotification(els, e)
  /\ dismissed' = TRUE
  /\ timers' = timers \cup {Timer("remove", e, FadeOutDelay)}
  /\ UNCHANGED <<backgroundVars, detectorVars, pdpVars, normVars, response, phase, preferences, autoShow, url, lastUrl, now, detectionResult, notificationShown,
                 showPending, nextRun, navs, page>>

ClickClose == \E e \in ElIds : Click(e, "clickClose")
ClickSearch == \E e \in ElIds : Click(e, "clickSearch")

\* hideNotification(): setTimeout(() => notification.remove(), 300)
RemoveFire ==
  \E t \in timers :
    /\ ZQuiet
    /\ t.kind = "remove"
    /\ timers' = timers \ {t}
    /\ els' = [els EXCEPT ![t.id].attached = FALSE]
    /\ lastOp' = Op("other", "none")
    /\ UNCHANGED <<backgroundVars, detectorVars, pdpVars, normVars, response, dismissed, phase, preferences, autoShow, url, lastUrl, now, detectionResult, notificationShown,
                   showPending, store, page, nextRun, navs>>

(* ---- z-index re-checks ---- *)
\* setTimeout(() => setZIndex(nodes), d)
ZCheckFire ==
  \E t \in timers :
    /\ t.kind = "zcheck"
    /\ t.delay = ZRecheckDelay2 =>
         ~\E t1 \in timers : t1.kind = "zcheck" /\ t1.id = t.id /\ t1.delay = ZRecheckDelay1
    /\ timers' = timers \ {t}
    /\ els' = setZIndex(els, t.id, t.scan, Document(els, page))
    /\ lastOp' = Op("other", "none")
    /\ UNCHANGED <<backgroundVars, detectorVars, pdpVars, normVars, response, dismissed, phase, preferences, autoShow, url, lastUrl, now, detectionResult, notificationShown,
                   showPending, store, page, nextRun, navs>>

\* the nodes a batch of mutation records adds to the document
AddedNodes(batch) == UNION Range(batch)

\* the MutationObserver callback: the first record with added nodes decides,
\* the rest of the batch is not looked at
observerCallback(e, batch) ==
  LET with == {i \in DOMAIN batch : batch[i] # {}}
  IN  IF with = {} THEN {}
      ELSE {ZTimer(e, ZMutationDelay, NodeList(batch[Min(with)]))}

\* a script adds nodes to the document; every connected observer is called
\* back with the batch of records
Mutation(batch) ==
  /\ page' = page \cup {n \in AddedNodes(batch) : n.element}
  /\ timers' = timers \cup
                UNION {observerCallback(e, batch) : e \in {x \in ElIds : els[x].obs = "connected"}}
  /\ lastOp' = Op("other", "none")
  /\ UNCHANGED <<backgroundVars, detectorVars, pdpVars, normVars, response, dismissed, phase, preferences, autoShow, url, lastUrl, now, detectionResult, notificationShown,
                 els, showPending, store, nextRun, navs>>

\* a text node is added while an observer is connected
MutationCallback ==
  /\ ZQuiet
  /\ \E e \in ElIds : els[e].obs = "connected"
  /\ Mutation(<<{TextNode}>>)

(* ---- handleMessage(request) ---- *)
HandledTypes == {"GET_DETECTION_RESULT", "TRIGGER_SEARCH", "SHOW_NOTIFICATION", "RE_DETECT"}
MessageTypes == HandledTypes \cup {"UNKNOWN"}

handleMessageAlwaysSucceeds(type) ==
  /\ ZQuiet
  /\ phase = "active"
  /\ CASE type = "GET_DETECTION_RESULT" ->
            /\ response' = SuccessWith(type, detectionResult)
            /\ UNCHANGED <<notificationShown, timers, nextRun, showPending, lastOp>>
       [] type = "TRIGGER_SEARCH" ->
            \* searchOnChaching() opens a tab and sends an event: no field, no element
            /\ response' = Success(type)
            /\ UNCHANGED <<notificationShown, timers, nextRun, showPending, lastOp>>
       [] type = "SHOW_NOTIFICATION" ->
            /\ IF ~notificationShown /\ isProductPage(detectionResult)
                 THEN /\ showPending' = showNotificationCall(notificationShown, detectionResult, showPending)
                      /\ lastOp' = Op(type, ShowOutcome(notificationShown, detectionResult))
                 ELSE UNCHANGED <<showPending, lastOp>>
            /\ response' = Success(type)
            /\ UNCHANGED <<notificationShown, timers, nextRun>>
       [] type = "RE_DETECT" ->
            /\ nextRun < MaxRuns
            /\ notificationShown' = FALSE
            /\ nextRun' = nextRun + 1
            /\ timers' = startDetection(timers, nextRun + 1)
            /\ lastOp' = Op("other", "none")
            /\ response' = Success(type)
            /\ UNCHANGED showPending
       [] OTHER ->
            \* default: any other type, or no type at all
            /\ response' = Success(type)
            /\ UNCHANGED <<notificationShown, timers, nextRun, showPending, lastOp>>
  /\ dismissed' = (dismissed /\ type # "RE_DETECT")
  /\ UNCHANGED <<backgroundVars, detectorVars, pdpVars, normVars, phase, preferences, autoShow, url, lastUrl, now, detectionResult, els, store, page, navs>>
handleMessage(type) ==
  /\ ZQuiet
  /\ phase = "active"
  /\ CASE type = "GET_DETECTION_RESULT" ->
            /\ response' = SuccessWith(type, detectionResult)
            /\ UNCHANGED <<notificationShown, timers, nextRun, showPending, lastOp>>
       [] type = "TRIGGER_SEARCH" ->
            \* searchOnChaching() opens a tab and sends an event: no field, no element
            /\ response' = Success(type)
            /\ UNCHANGED <<notificationShown, timers, nextRun, showPending, lastOp>>
       [] type = "SHOW_NOTIFICATION" ->
            /\ IF ~notificationShown /\ isProductPage(detectionResult)
                 THEN /\ showPending' = showNotificationCall(notificationShown, detectionResult, showPending)
                      /\ lastOp' = Op(type, ShowOutcome(notificationShown, detectionResult))
                 ELSE UNCHANGED <<showPending, lastOp>>
            /\ response' = Success(type)
            /\ UNCHANGED <<notificationShown, timers, nextRun>>
       [] type = "RE_DETECT" ->
            /\ nextRun < MaxRuns
            /\ notificationShown' = FALSE
            /\ nextRun' = nextRun + 1
            /\ timers' = startDetection(timers, nextRun + 1)
            /\ lastOp' = Op("other", "none")
            /\ response' = Success(type)
            /\ UNCHANGED showPending
       [] OTHER ->
            \* default: any other type, or no type at all
            /\ response' = Failure(type, "Unknown message type")
            /\ UNCHANGED <<notificationShown, timers, nextRun, showPending, lastOp>>
  /\ dismissed' = (dismissed /\ type # "RE_DETECT")
  /\ UNCHANGED <<backgroundVars, detectorVars, pdpVars, normVars, phase, preferences, autoShow, url, lastUrl, now, detectionResult, els, store, page, navs>>

Message == \E type \in MessageTypes : handleMessage(type)

(* ---- observeUrlChanges() ---- *)
\* document.querySelectorAll('.chaching-notification').forEach(el => el.remove())
removeNotificationsNone(E) == E
removeNotifications(E) == [e \in ElIds |-> [E[e] EXCEPT !.attached = FALSE]]

\* the setInterval callback, when the URL differs from lastUrl
UrlPoll ==
  /\ ZQuiet
  /\ phase = "active"
  /\ url # lastUrl
  /\ nextRun < MaxRuns
  /\ lastUrl' = url
  /\ notificationShown' = FALSE
  /\ detectionResult' = NullResult
  /\ els' = removeNotifications(els)
  /\ navs' = navs + 1
  /\ nextRun' = nextRun + 1
  /\ timers' = timers \cup {[Timer("settle", nextRun + 1, SettleDelay)
                              EXCEPT !.view = navs + 1]}
  /\ lastOp' = Op("other", "none")
  /\ dismissed' = FALSE
  /\ UNCHANGED <<backgroundVars, detectorVars, pdpVars, normVars, response, phase, preferences, autoShow, url, now, showPending, store, page>>

\* setTimeout(() => this.startDetection(), 1000)
SettleFire ==
  \E t \in timers :
    /\ ZQuiet
    /\ t.kind = "settle"
    /\ timers' = startDetection(timers \ {t}, t.id)
    /\ lastOp' = Op("other", "none")
    /\ UNCHANGED <<backgroundVars, detectorVars, pdpVars, normVars, response, dismissed, phase, preferences, autoShow, url, lastUrl, now, detectionResult, notificationShown,
                   els, showPending, store, page, nextRun, navs>>

(* ---- environment ---- *)
\* single-page-app navigation: history.pushState changes location.href
Navigate ==
  /\ ZQuiet
  /\ \E u \in URLS \ {url} : url' = u
  /\ lastOp' = Op("other", "none")
  /\ UNCHANGED <<backgroundVars, detectorVars, pdpVars, normVars, response, dismissed, phase, preferences, autoShow, lastUrl, now, detectionResult, notificationShown,
                 els, timers, showPending, store, page, nextRun, navs>>

\* the program reads the clock only to stamp a dismissal record and to take the
\* difference with a stored stamp, so the clock is advanced only once a record
\* exists; five minutes do not pass while a timer or a storage read is pending
Tick ==
  /\ \E u \in URLS : store[u].present
  /\ timers = {}
  /\ showPending = <<>>
  /\ now < MaxTicks * TickMs
  /\ now' = now + TickMs
  /\ lastOp' = Op("other", "none")
  /\ UNCHANGED <<backgroundVars, detectorVars, pdpVars, normVars, response, dismissed, phase, preferences, autoShow, url, lastUrl, detectionResult, notificationShown,
                 els, timers, showPending, store, page, nextRun, navs>>

Next ==
  \/ LoadPreferences
  \/ DebounceFire
  \/ RetryFire
  \/ ShowResume
  \/ ClickClose
  \/ ClickSearch
  \/ RemoveFire
  \/ ZCheckFire
  \/ MutationCallback
  \/ Message
  \/ UrlPoll
  \/ SettleFire
  \/ Navigate
  \/ Tick

Spec == Init /\ [][Next]_vars

(* ---- the controller's method called a second time ---- *)
\* showNotification() entered again after a notification was shown in this
\* page-view, by a caller that does not test notificationShown first (the method
\* is public; detectPage and handleMessage test the flag before they call it)
ShowNotificationAgain ==
  /\ ZQuiet
  /\ phase = "active"
  /\ notificationShown
  /\ showPending' = showNotificationCall(notificationShown, detectionResult, showPending)
  /\ lastOp' = Op("showNotification", ShowOutcome(notificationShown, detectionResult))
  /\ UNCHANGED <<backgroundVars, detectorVars, pdpVars, normVars, response, dismissed, phase, preferences, autoShow, url, lastUrl, now, detectionResult, notificationShown,
                 els, timers, store, page, nextRun, navs>>

NextApi == Next \/ ShowNotificationAgain

SpecApi == Init /\ [][NextApi]_vars

(* ---- the page changes under the notification ---- *)
\* documents the script may start in: no positioned element, the 999999 of an
\* ordinary overlay, the largest z-index, and elements above the floor that sit
\* in an open shadow root, in a closed one, or below an unstyled wrapper
InitialPages ==
  {{}, {Top(999999)}, {Top(MaxCssInteger)}, {Shadowed("open", ZFloor + 5)},
   {Shadowed("closed", ZFloor + 5)}, {Wrapped(ZFloor + 5)}}

\* batches of mutation records: the addedNodes of each record
Batches ==
  {<<{TextNode}>>, <<{Top(ZFloor + 5)}>>, <<{Wrapped(ZFloor + 5)}>>,
   <<{Leaf(Auto)}, {Top(ZFloor + 5)}>>}

InitZ == page \in InitialPages /\ InitController /\ DetectorIdle /\ PdpIdle /\ NormIdle /\ BackgroundIdle

\* a script of the page or of another extension adds nodes, at any time after
\* the re-check of the previous batch (100 ms) has run
PageMutation ==
  /\ ~\E t \in timers : t.kind = "zcheck" /\ ~t.scan.all
  /\ \E batch \in Batches : Mutation(batch)

\* the handlers that create, re-check and dismiss notifications (RE_DETECT
\* brings a second one), while the page changes: no z-index depends on the
\* clock, the store or the URL
NextZ ==
  \/ LoadPreferences
  \/ DebounceFire
  \/ ShowResume
  \/ ClickClose
  \/ RemoveFire
  \/ ZCheckFire
  \/ PageMutation
  \/ Message

SpecZ == InitZ /\ [][NextZ]_vars

(* ---- detectBrandOnPage() on its own: catalogs, pages, the two steps ---- *)
\* the names of BrandList.csv as written there
BrandNames == {<<"N", "i", "k", "e">>, <<"N", "I", "K", "E", "(R)">>, <<"U", "G", "G", "(R)">>,
               <<"R", "u", "g", "g", "a", "b", "l", "e">>}

\* a brand list: some of the lines, each once, in any order; two lines may spell
\* the same brand
BrandLists ==
  UNION {{csv \in [1..n -> BrandNames] : \A i, j \in 1..n : csv[i] = csv[j] => i = j} :
           n \in 1..Cardinality(BrandNames)}

\* fetching and reading the list yields its lines, or fails
BrandSources == {[ok |-> TRUE, csv |-> csv] : csv \in BrandLists} \cup {[ok |-> FALSE, csv |-> <<>>]}

\* brandNames.map(name => ({name, cashback: 33}))
brandsOf(csv) == [i \in 1..Len(csv) |-> [name |-> csv[i], cashback |-> 33]]

\* brands.map(brand => ({...brand, name: normalizeBrand(brand.name)}))
normalizedBrands(brands) ==
  [i \in 1..Len(brands) |-> [brands[i] EXCEPT !.name = normalizeBrand(brands[i].name)]]

\* normalizedBrands.map(brand => brand.name)
namesOf(normalized) == [i \in 1..Len(normalized) |-> normalized[i].name]

\* new Map(pairs).keys(): every key once, at the place of its first pair
newMapKeys(names) ==
  LET firsts == {i \in 1..Len(names) : \A j \in 1..(i - 1) : names[j] # names[i]}
      Nth(k) == CHOOSE i \in firsts : Cardinality({j \in firsts : j <= i}) = k
  IN  [k \in 1..Cardinality(firsts) |-> names[Nth(k)]]

\* new Map(pairs).get(key): the value of the last pair with that key
newMapGet(normalized) ==
  [k \in Range(namesOf(normalized)) |->
     normalized[Max({i \in 1..Len(normalized) : normalized[i].name = k})]]

\* the map and the array built from the `brands` array
SupportedBrands(brands) ==
  [brands |-> brands,
   map |-> newMapKeys(namesOf(normalizedBrands(brands))),
   get |-> newMapGet(normalizedBrands(brands)),
   array |-> namesOf(normalizedBrands(brands))]

\* loadBrands(): the map and the array it leaves on window; the catch block
\* leaves both empty
loadBrandsKeepsDefault(source) ==
  IF source.ok THEN SupportedBrands(brandsOf(source.csv))
  ELSE SupportedBrands(<<[name |-> nike, cashback |-> 33]>>)
loadBrands(source) ==
  IF source.ok THEN SupportedBrands(brandsOf(source.csv))
  ELSE SupportedBrands(<<>>)

\* what the page shows as its product title
PageTitles ==
  { <<>>,
    <<"N", "i", "k", "e", " ", "A", "i", "r">>,
    <<"N", "I", "K", "E", "(R)">>,
    <<" ", "n", "i", "k", "e", " ">>,
    <<"N", "i", "(R)", "k", "e">>,
    <<"N", "i", "k", "e", "s">>,
    <<"U", "G", "G", " ", "b", "o", "o", "t", "s">>,
    <<"R", "u", "g", "g", "a", "b", "l", "e">>,
    <<"R", "u", "g", "s">> }

\* what the other strategies find: the JSON-LD brand, the contents of the brand
\* tags, and the labels of the hostname
ShopHost == <<<<"w", "w", "w">>, <<"s", "h", "o", "p">>, <<"t", "e", "s", "t">>>>
PageEvidences ==
  { [jsonLd |-> <<>>, tags |-> <<>>, hostname |-> ShopHost],
    [jsonLd |-> <<<<"N", "i", "k", "e", " ", "A", "i", "r">>>>,
     tags |-> << <<"n", "i", "k", "e">>, <<"N", "I", "K", "E", "(R)">>, <<"U", "G", "G">> >>,
     hostname |-> ShopHost],
    [jsonLd |-> <<<<"N", "i", "k", "e">>>>,
     tags |-> << <<"N", "i", "k", "e">>, <<"U", "G", "G">>, <<" ">> >>,
     hostname |-> ShopHost],
    [jsonLd |-> <<>>, tags |-> << <<"U", "G", "G">> >>, hostname |-> ShopHost],
    [jsonLd |-> <<>>, tags |-> <<>>,
     hostname |-> <<ruggable, <<"c", "o", "m">>>>],
    [jsonLd |-> <<>>, tags |-> <<>>, hostname |-> <<>>] }

InitVote ==
  /\ page = {}
  /\ InitController
  /\ brandSource \in BrandSources
  /\ brandObjects = <<>>
  /\ brandRecords = <<>>
  /\ catalog = <<>>
  /\ brandArray = <<>>
  /\ pageTitle \in PageTitles
  /\ pageEvidence \in PageEvidences
  /\ candidates = <<>>
  /\ bestBrand = NoBrand
  /\ brandResult = NoDetection
  /\ dstep = "unloaded"
  /\ PdpIdle
  /\ NormIdle /\ BackgroundIdle

\* loadBrands(), run before the detector
LoadBrands ==
  /\ dstep = "unloaded"
  /\ catalog' = loadBrands(brandSource).map
  /\ brandArray' = loadBrands(brandSource).array
  /\ brandObjects' = loadBrands(brandSource).brands
  /\ brandRecords' = loadBrands(brandSource).get
  /\ dstep' = "idle"
  /\ UNCHANGED <<backgroundVars, controllerVars, pdpVars, normVars, brandSource, pageTitle, pageEvidence, candidates, bestBrand,
                 brandResult>>

\* const candidates = this.findAllBrandCandidates()
FindAllBrandCandidatesConsuming ==
  /\ dstep = "idle"
  /\ candidates' = findAllBrandCandidates(brandArray, pageTitle, pageEvidence)
  /\ brandArray' = <<>>
  /\ dstep' = "gathered"
  /\ UNCHANGED <<backgroundVars, controllerVars, pdpVars, normVars, brandSource, brandObjects, brandRecords, catalog, pageTitle, pageEvidence,
                 bestBrand, brandResult>>
FindAllBrandCandidates ==
  /\ dstep = "idle"
  /\ candidates' = findAllBrandCandidates(brandArray, pageTitle, pageEvidence)
  /\ dstep' = "gathered"
  /\ UNCHANGED <<backgroundVars, controllerVars, pdpVars, normVars, brandSource, brandObjects, brandRecords, catalog, brandArray, pageTitle, pageEvidence,
                 bestBrand, brandResult>>

\* const bestBrand = this.determineBestBrandByVotes(candidates)
DetermineBestBrandByVotes ==
  /\ dstep = "gathered"
  /\ bestBrand' = determineBestBrandByVotes(catalog, candidates)
  /\ dstep' = "voted"
  /\ UNCHANGED <<backgroundVars, controllerVars, pdpVars, normVars, brandSource, brandObjects, brandRecords, catalog, brandArray, pageTitle, pageEvidence,
                 candidates, brandResult>>

\* if (bestBrand) return {isSupported: true, productInfo}; return null
DetectBrandOnPageReturns ==
  /\ dstep = "voted"
  /\ brandResult' = detectBrandOnPageReturn(bestBrand, pageTitle)
  /\ dstep' = "returned"
  /\ UNCHANGED <<backgroundVars, controllerVars, pdpVars, normVars, brandSource, brandObjects, brandRecords, catalog, brandArray, pageTitle, pageEvidence,
                 candidates, bestBrand>>

NextVote ==
  \/ LoadBrands
  \/ FindAllBrandCandidates
  \/ DetermineBestBrandByVotes
  \/ DetectBrandOnPageReturns

SpecVote == InitVote /\ [][NextVote]_vars

(* ---- detectProductPage() on its own ---- *)
\* the pages: every combination of signals; a product title the code throws on
\* comes from the page's structured data
PageSignalSets ==
  {sig \in [SignalNames -> {"absent", "present", "broken"}] :
     /\ \A n \in SignalNames : sig[n] = "broken" => n \in CanThrow
     /\ sig["productTitle"] = "broken" => sig["structuredData"] = "present"}

InitPdp ==
  /\ page = {}
  /\ InitController
  /\ DetectorIdle
  /\ pageSignals \in PageSignalSets
  /\ pdpResult = InitialResult
  /\ pstep = "idle"
  /\ NormIdle /\ BackgroundIdle

\* this.detectionResult = this.detector.detectProductPage()
DetectProductPage ==
  /\ pstep = "idle"
  /\ pdpResult' = detectProductPage(pageSignals)
  /\ pstep' = "done"
  /\ UNCHANGED <<backgroundVars, controllerVars, detectorVars, normVars, pageSignals>>

NextPdp == DetectProductPage

SpecPdp == InitPdp /\ [][NextPdp]_vars

(* ---- the catalog built from a `brands` array written in the script ---- *)
\* the entries a developer may write: a name in some spelling and a cashback level
BrandObjects ==
  {[name |-> n, cashback |-> c] :
     n \in {nike, <<"N", "i", "k", "e", "(R)">>, <<" ", "U", "G", "G">>}, c \in {12, 9}}
BrandObjectLists == UNION {[1..n -> BrandObjects] : n \in 0..MaxBrands}

InitCatalog ==
  /\ page = {}
  /\ InitController
  /\ PdpIdle
  /\ NormIdle /\ BackgroundIdle
  /\ brandSource = [ok |-> TRUE, csv |-> <<>>]
  /\ brandObjects \in BrandObjectLists
  /\ brandRecords = <<>>
  /\ catalog = <<>>
  /\ brandArray = <<>>
  /\ pageTitle = <<>>
  /\ pageEvidence = [jsonLd |-> <<>>, tags |-> <<>>, hostname |-> <<>>]
  /\ candidates = <<>>
  /\ bestBrand = NoBrand
  /\ brandResult = NoDetection
  /\ dstep = "script"

\* the top-level statements of brands.js: normalizedBrands, the map, the array
BuildCatalog ==
  /\ dstep = "script"
  /\ brandRecords' = SupportedBrands(brandObjects).get
  /\ catalog' = SupportedBrands(brandObjects).map
  /\ brandArray' = SupportedBrands(brandObjects).array
  /\ dstep' = "idle"
  /\ UNCHANGED <<backgroundVars, controllerVars, pdpVars, normVars, brandSource, brandObjects, pageTitle, pageEvidence,
                 candidates, bestBrand, brandResult>>

NextCatalog == BuildCatalog

SpecCatalog == InitCatalog /\ [][NextCatalog]_vars

(* ---- normalizeBrand() on its own ---- *)
\* the characters of the names: a capital, a small letter, white space inside or
\* outside the name, and trademark glyphs
NameChars == {"N", "k", " ", "\t", "(R)", "(TM)"}
RawNames == UNION {[1..n -> NameChars] : n \in 0..MaxNameLen}

InitNormalize ==
  /\ page = {}
  /\ InitController
  /\ DetectorIdle
  /\ PdpIdle
  /\ BackgroundIdle
  /\ rawName \in RawNames
  /\ normalizedOnce = <<>>
  /\ normalizedTwice = <<>>
  /\ nstep = "idle"

\* normalizeBrand(s)
NormalizeOnce ==
  /\ nstep = "idle"
  /\ normalizedOnce' = normalizeBrand(rawName)
  /\ nstep' = "once"
  /\ UNCHANGED <<backgroundVars, controllerVars, detectorVars, pdpVars, rawName, normalizedTwice>>

\* normalizeBrand(normalizeBrand(s))
NormalizeAgain ==
  /\ nstep = "once"
  /\ normalizedTwice' = normalizeBrand(normalizedOnce)
  /\ nstep' = "twice"
  /\ UNCHANGED <<backgroundVars, controllerVars, detectorVars, pdpVars, rawName, normalizedOnce>>

NextNormalize ==
  \/ NormalizeOnce
  \/ NormalizeAgain

SpecNormalize == InitNormalize /\ [][NextNormalize]_vars

(* ---- the background worker and one tab ---- *)
MaxUpdates == 2     \* onUpdated events with status complete that start a handler

\* host names of the tab: the domain d.c, a subdomain of it, two hosts that
\* contain its text without being under it, another domain
TabHosts ==
  { <<"d", ".", "c">>, <<"w", ".", "d", ".", "c">>, <<"x", "d", ".", "c">>,
    <<"d", ".", "c", ".", "x">>, <<"e", ".", "c">>, <<"w", ".", "e", ".", "c">> }
DomainLists ==
  { <<>>, << <<"d", ".", "c">> >>, << <<"e", ".", "c">> >>,
    << <<"d", ".", "c">>, <<"e", ".", "c">> >> }

InitTabs ==
  /\ page = {}
  /\ InitController
  /\ DetectorIdle
  /\ PdpIdle
  /\ NormIdle
  /\ excludedDomains \in DomainLists
  /\ tabHost \in TabHosts
  /\ tabOpen = TRUE
  /\ detectedProducts = {}
  /\ handlers = <<>>
  /\ skipped = FALSE

\* chrome.tabs.onUpdated: up to the first await
OnUpdated ==
  /\ tabOpen
  /\ Len(handlers) < MaxUpdates
  /\ \E status \in {"loading", "complete"} :
       IF status # "complete" THEN UNCHANGED <<handlers, skipped>>
       ELSE IF isExcluded(tabHost, excludedDomains)
              THEN skipped' = TRUE /\ UNCHANGED handlers
       ELSE /\ handlers' = Append(handlers, Handler("inject", "none"))
            /\ UNCHANGED skipped
  /\ UNCHANGED <<controllerVars, detectorVars, pdpVars, normVars, excludedDomains, tabHost, tabOpen, detectedProducts>>

\* the browser finishes the call a handler awaits: executeScript and insertCSS
\* reject when the tab is gone or the page refuses the injection
BrowserReplies ==
  /\ \E i \in 1..Len(handlers) :
       /\ handlers[i].pc # "done"
       /\ handlers[i].reply = "none"
       /\ \E r \in (IF ~tabOpen THEN {"error"}
                    ELSE IF handlers[i].pc = "detect" THEN {"supported", "unsupported", "error"}
                    ELSE {"ok", "error"}) :
            handlers' = [handlers EXCEPT ![i].reply = r]
  /\ UNCHANGED <<controllerVars, detectorVars, pdpVars, normVars, excludedDomains, tabHost, tabOpen, detectedProducts, skipped>>

\* the handler goes on after its await, up to the next one
HandlerResumes ==
  /\ \E i \in 1..Len(handlers) :
       LET h == handlers[i] IN
       /\ h.reply # "none"
       /\ h.pc # "done"
       /\ handlers' = [handlers EXCEPT ![i] =
            CASE h.reply = "error" -> Handler("done", "none")
              [] h.pc = "inject" -> Handler("detect", "none")
              [] h.pc = "detect" /\ h.reply = "supported" -> Handler("css", "none")
              [] h.pc = "css" -> Handler("main", "none")
              [] OTHER -> Handler("done", "none")]
       /\ detectedProducts' =
            IF h.pc = "detect" /\ h.reply = "supported" THEN detectedProducts \cup {"tab"}
            ELSE IF h.pc = "detect" /\ h.reply = "unsupported" THEN detectedProducts \ {"tab"}
            ELSE detectedProducts
  /\ UNCHANGED <<controllerVars, detectorVars, pdpVars, normVars, excludedDomains, tabHost, tabOpen, skipped>>

\* the tab is closed: chrome.tabs.onRemoved
OnRemoved ==
  /\ tabOpen
  /\ tabOpen' = FALSE
  /\ detectedProducts' = detectedProducts \ {"tab"}
  /\ UNCHANGED <<controllerVars, detectorVars, pdpVars, normVars, excludedDomains, tabHost, handlers, skipped>>

NextTabs ==
  \/ OnUpdated
  \/ BrowserReplies
  \/ HandlerResumes
  \/ OnRemoved

SpecTabs == InitTabs /\ [][NextTabs]_vars

(* ---- the content script on a page with or without product-page signals ---- *)
AllSignals == [n \in SignalNames |-> "present"]

InitTwoStage ==
  /\ page = {}
  /\ InitController
  /\ DetectorIdle
  /\ pageSignals \in {NoSignals, AllSignals}
  /\ pdpResult = InitialResult
  /\ pstep = "off"
  /\ NormIdle /\ BackgroundIdle

SpecTwoStage == InitTwoStage /\ [][Next]_vars

(***************************************************************************)
(* The claims                                                              *)
(***************************************************************************)
Clicks == {"clickClose", "clickSearch"}
Detection(S) == {t \in S : t.kind \in {"debounce", "retry"}}

\* C1: in every reachable state at most one notification element is attached to
\* the document.
C1_AtMostOneNotification == Cardinality(Attached) <= 1

\* C2: a showNotification() call made while notificationShown is true is a no-op:
\* it returns at once, nothing is appended and no state changes.
C2_SecondShowIsNoOp ==
  [][(lastOp'.op = "showNotification" /\ notificationShown)
       => /\ lastOp'.show = "returned"
          /\ UNCHANGED <<els, showPending, notificationShown, timers, store,
                         detectionResult>>]_vars

C2_Witness ==
  /\ lastOp = Op("showNotification", "returned")
  /\ notificationShown
  /\ HasTitle(detectionResult)
  /\ Attached # {}

\* C3: showNotification() goes from Idle to Displaying exactly when the verdict
\* qualifies, no notification was shown in this page-view and no dismissal record
\* younger than 15 minutes exists: so a call that returned at once (before the
\* record is even read) had a verdict that does not qualify or a notification
\* already shown.
C3_ShowsWhenAllThreeHold ==
  (lastOp.op = "detectPage" /\ lastOp.show = "returned")
    => ~(detectionResult.isSupported /\ ~notificationShown)

\* C4: a dismissal is recorded under the exact current URL with the current time;
\* a showNotification() call reads the record of its own exact URL only; when it
\* resumes it appends nothing if that record is younger than 15 minutes and
\* appends the notification otherwise (no record, or 15 minutes or more).
C4_Cooldown ==
  [][/\ store' # store
          => /\ store'[url].present /\ getTime(store'[url].timestamp) = now
             /\ \A u \in URLS \ {url} : store'[u] = store[u]
     /\ Len(showPending') > Len(showPending)
          => showPending' = Append(showPending, [key |-> url, data |-> store[url], view |-> navs])
     /\ Len(showPending') < Len(showPending)
          => LET c == Head(showPending)
                 young == c.data.present
                            /\ now - getTime(c.data.timestamp) < 15 * 60 * 1000
             IN  /\ young => UNCHANGED <<els, notificationShown>>
                 /\ ~young => /\ notificationShown'
                              /\ \E e \in ElIds : ~els[e].created /\ els'[e].attached
    ]_vars

\* a notification is appended on one URL while the other URL has a record
\* younger than 15 minutes
C4_Witness ==
  /\ lastOp = Op("showResume", "appended")
  /\ ~store[url].present
  /\ \E u \in URLS \ {url} :
       store[u].present /\ now - getTime(store[u].timestamp) < 15 * 60 * 1000

\* the other two cases of C4: a call suppressed by the record of its URL, and a
\* call on the same URL that is no longer suppressed after 15 minutes
C4_SuppressedCase == lastOp = Op("showResume", "suppressed")
C4_ExpiredCase ==
  /\ lastOp = Op("showResume", "appended")
  /\ store[url].present
  /\ now - getTime(store[url].timestamp) >= 15 * 60 * 1000

C7_ObserverDisconnectedBeforeRemoval ==
  [][\A e \in ElIds :
       /\ els'[e].hide => els'[e].obs = "disconnected"
       /\ (\E t \in timers' \ timers :
             t.kind = "zcheck" /\ t.id = e /\ t.delay = ZMutationDelay)
            => ~els[e].hide]_vars

C7_Witness ==
  \E e \in ElIds : els[e].hide /\ ~els[e].attached /\ els[e].obs = "disconnected"

\* C8: whenever no notification element is attached to the document, no mutation
\* observer created for a notification is still connected.
C8_NoObserverWithoutElement ==
  Attached = {} => \A e \in ElIds : els[e].obs # "connected"

\* C9: the first attempt of a run arms nothing when it qualifies and exactly one
\* retry timer of 3000 ms when it does not; the retry arms nothing, whatever its
\* outcome; no run ever has a third attempt or two pending attempts.
C9_SingleRetry ==
  [][/\ \A t \in Detection(timers) \ timers' :
          IF t.kind = "debounce" /\ ~detectionResult'.isSupported
            THEN \E r \in timers' \ timers :
                   /\ r.kind = "retry" /\ r.id = t.id /\ r.delay = 3000 /\ r.attempt = 2
                   /\ Detection(timers') = (Detection(timers) \ {t}) \cup {r}
            ELSE Detection(timers') = Detection(timers) \ {t}
     /\ \A t \in Detection(timers') :
          /\ t.attempt <= 2
          /\ \A t2 \in Detection(timers') : t2.id = t.id => t2 = t
    ]_vars

\* the first attempt of a run failed and its one retry is pending
C9_Witness ==
  \E t \in timers :
    /\ t.kind = "retry" /\ t.delay = 3000 /\ t.attempt = 2
    /\ ~\E t2 \in timers : t2.kind = "debounce" /\ t2.id = t.id
    /\ ~detectionResult.isSupported

\* C10: at most one detection attempt of a page-view (debounced first attempt or
\* retry) is pending at any time.
C10_AtMostOnePendingAttempt ==
  \A t1, t2 \in Detection(timers) : t1.view = t2.view => t1 = t2

\* C11: the URL poll that sees a changed URL detaches every notification
\* element, sets the verdict to null and arms one settle timer of 1000 ms, all in
\* that step; the settle timer, when it fires, arms exactly one first detection
\* attempt for the page-view.
C11_UrlChangeResets ==
  [][/\ navs' # navs
          => /\ Attached' = {}
             /\ detectionResult' = NullResult
             /\ detectionResult'.isNull
             /\ \E st \in timers' \ timers :
                  /\ st.kind = "settle" /\ st.delay = 1000
                  /\ timers' = timers \cup {st}
                  /\ ~\E s2 \in timers : s2.kind = "settle" /\ s2.id = st.id
     /\ \A st \in timers \ timers' :
          st.kind = "settle"
            => \E d \in timers' \ timers :
                 /\ d.kind = "debounce" /\ d.attempt = 1 /\ d.id = st.id
                 /\ timers' = (timers \ {st}) \cup {d}
    ]_vars

\* a displayed notification was removed by the reset and the one first attempt
\* of the new page-view is pending
C11_Witness ==
  /\ navs >= 1
  /\ \E e \in ElIds : els[e].created /\ ~els[e].attached /\ ~els[e].hide
  /\ \E d \in timers : d.kind = "debounce" /\ d.view = navs /\ d.attempt = 1
  /\ ~\E st \in timers : st.kind = "settle"

\* C12: a retry timer armed in an earlier page-view does nothing when it fires
\* after the URL change: the verdict is not written and showNotification() is
\* not called.
C12_StaleRetryHasNoEffect ==
  [][\A t \in timers \ timers' :
       (t.kind = "retry" /\ t.view # navs)
         => UNCHANGED <<detectionResult, showPending>>]_vars

\* the z-index values of the elements among some nodes and in their subtrees,
\* with what their shadow roots of the given modes hold
StyleZ(ns) == {n.style.n : n \in {x \in ns : x.element /\ ~x.style.auto}}
SubtreeZ(ns) == StyleZ(ns) \cup StyleZ(UNION {n.kids : n \in ns})
ShadowZ(ns, modes) ==
  SubtreeZ(UNION {n.shadowKids : n \in {x \in ns : x.shadowMode \in modes}})
CompetingZ(ns) == SubtreeZ(ns) \cup ShadowZ(ns, {"open"})

\* C13: the z-index a notification gets when it is created is strictly greater
\* than the computed z-index of every other element of the document, the
\* elements inside open shadow roots included.
C13_AboveEveryElementAtCreation ==
  [][\A e \in ElIds :
       (~els[e].created /\ els'[e].created)
         => \A m \in CompetingZ(Document(els, page)) : els'[e].z > m]_vars

\* C14: the z-index of a notification never decreases, whatever the order of the
\* fixed-delay re-checks and the mutation-triggered re-checks.
C14_ZIndexNeverDecreases ==
  [][\A e \in ElIds : els[e].created => els'[e].z >= els[e].z]_vars

\* the z-index was raised above its floor value and a mutation re-check over a
\* node without any z-index is pending
C14_Witness ==
  \E e \in ElIds :
    /\ els[e].attached /\ els[e].z > ZFloor + 1
    /\ \E t \in timers :
         /\ t.kind = "zcheck" /\ t.id = e /\ ~t.scan.all
         /\ CompetingZ(t.scan.nodes) = {}

\* C15: when the re-check of a mutation runs for a displayed notification (after
\* its two fixed-delay re-checks), the notification's z-index is strictly above
\* the z-index of every element of the added subtrees (leaving aside the
\* elements that already hold the largest z-index).
C15_RaisedAboveAddedSubtree ==
  [][\A t \in timers \ timers' :
       (/\ t.kind = "zcheck" /\ ~t.scan.all
        /\ els[t.id].attached /\ ~els[t.id].hide
        /\ ~\E t2 \in timers : t2.kind = "zcheck" /\ t2.id = t.id /\ t2.scan.all)
         => \A m \in CompetingZ(t.scan.nodes) :
              m < MaxCssInteger => els'[t.id].z > m]_vars

\* C16: a re-check changes the z-index of a notification only when an element of
\* the page other than the notifications has a z-index at least as high: a scan
\* never raises the notification because of the notification's own z-index.
C16_NoSelfRaise ==
  [][\A t \in timers \ timers' :
       (t.kind = "zcheck" /\ els'[t.id].z # els[t.id].z)
         => \E m \in SubtreeZ(page) \cup ShadowZ(page, {"open", "closed"}) :
              m >= els[t.id].z]_vars

\* both fixed-delay re-checks of an attached notification have run over a
\* document with a competing element and its z-index is still the one it got
\* when it was created
C16_Witness ==
  \E e \in ElIds :
    /\ els[e].attached
    /\ ~\E t \in timers : t.kind = "zcheck"
    /\ page = {Top(999999)}
    /\ els[e].z = ZFloor + 1

Mentions(b) ==
  Cardinality({i \in DOMAIN candidates : includes(normalizeBrand(candidates[i].text), b)})

OnlyTitleEvidence ==
  /\ pageEvidence.jsonLd = <<>>
  /\ pageEvidence.tags = <<>>
  /\ \A b \in Range(catalog) :
       ~includes(normalizeBrand(extractMainDomain(pageEvidence.hostname)), b)

\* C19: for every catalog brand N, when the title is a variant of N (it
\* normalizes to N) and is the page's only brand evidence, the winning brand is
\* N's record, whatever else the catalog holds and in whatever order.
C19_TitleVariantYieldsBrand ==
  (dstep = "voted" /\ OnlyTitleEvidence) =>
    \A N \in Range(catalog) :
      normalizeBrand(pageTitle) = N => bestBrand = BrandRecord(N)

\* w occurs in s with no word character on either side
WholeWordIn(s, w) ==
  \E k \in 1..Len(s) :
    /\ OccursAt(s, w, k)
    /\ k = 1 \/ ~IsWordChar(s[k - 1])
    /\ k + Len(w) > Len(s) \/ ~IsWordChar(s[k + Len(w)])

\* C20: a candidate is gathered from the title for a brand only where the brand
\* name is a whole word of the title, and a gathered candidate gives a brand a
\* vote only if the brand name is a whole word of the candidate's text.
C20_WholeWordVotesOnly ==
  dstep = "voted" =>
    /\ \A i \in DOMAIN candidates :
         candidates[i].strategy = "title"
           => WholeWordIn(toLowerCase(extractProductTitle(pageTitle)), candidates[i].brand)
    /\ \A i \in DOMAIN candidates : \A b \in Range(catalog) :
         voteCountOf(<<candidates[i]>>, b) > 0
           => WholeWordIn(normalizeBrand(candidates[i].text), b)

RECURSIVE WeightSum(_)
WeightSum(S) ==
  IF S = {} THEN 0
  ELSE LET n == CHOOSE x \in S : TRUE IN weights[n] + WeightSum(S \ {n})

\* C22: the confidence detectProductPage returns is the exact sum of the fixed
\* weights of the signals present on the page, and making one absent signal
\* present, the others unchanged, never gives a lower confidence.
C22_ConfidenceIsExactSum ==
  pstep = "done" =>
    /\ pdpResult.confidence = WeightSum({n \in SignalNames : pageSignals[n] = "present"})
    /\ \A n \in SignalNames :
         pageSignals[n] = "absent" =>
           detectProductPage([pageSignals EXCEPT ![n] = "present"]).confidence
             >= pdpResult.confidence

C25_ActionButtonAnd75Required ==
  (pstep = "done" /\ pdpResult.isProductPage) =>
    /\ "actionButton" \in pdpResult.signals
    /\ pdpResult.confidence >= 75

\* C24: detection is two-stage: a notification is displayed only on a page whose
\* product-page score has met the threshold (the brand vote is taken only then,
\* and the page qualifies only if a supported brand also won it).
C24_TwoStageDetection ==
  (\E e \in ElIds : els[e].attached) => detectProductPage(pageSignals).isProductPage

\* C26: when fetching or reading the brand list fails, loadBrands leaves an empty
\* map and an empty name array, and every detection pass after it ends with no
\* winning brand: determineBestBrandByVotes and detectBrandOnPage return null.
C26_FailedLoadLeavesEmptyCatalog ==
  (dstep # "unloaded" /\ ~brandSource.ok) =>
    /\ catalog = <<>>
    /\ brandArray = <<>>
    /\ dstep \in {"voted", "returned"} => bestBrand = NoBrand
    /\ dstep = "returned" => brandResult = NoDetection

\* the load failed, the page is titled "Nike Air" and carries brand evidence,
\* candidates were gathered and detectBrandOnPage has returned null
C26_Witness ==
  /\ ~brandSource.ok
  /\ dstep = "returned"
  /\ pageTitle = <<"N", "i", "k", "e", " ", "A", "i", "r">>
  /\ Len(candidates) = 5
  /\ brandResult = NoDetection

\* C27: after loading, the map's keys are the normalized names, each once; the
\* record under a key is the last entry loaded with that name; and the name
\* array holds exactly the map's keys, each name once.
C27_CatalogKeysAndNames ==
  dstep = "idle" =>
    /\ \A i, j \in 1..Len(catalog) : catalog[i] = catalog[j] => i = j
    /\ Range(catalog) = {normalizeBrand(brandObjects[i].name) : i \in 1..Len(brandObjects)}
    /\ \A k \in Range(catalog) :
         LET last == Max({i \in 1..Len(brandObjects) : normalizeBrand(brandObjects[i].name) = k})
         IN  brandRecords[k] = [name |-> k, cashback |-> brandObjects[last].cashback]
    /\ Range(brandArray) = Range(catalog)
    /\ \A i, j \in 1..Len(brandArray) : brandArray[i] = brandArray[j] => i = j

\* C28: normalization is idempotent: normalizing the result of normalizeBrand
\* gives that result again, for every string, with trademark glyphs and with
\* white space inside or around the name.
C28_NormalizeIdempotent ==
  nstep = "twice" => normalizedTwice = normalizedOnce

\* " N(R)": the glyph and the white space are removed, the capital lowered, and
\* the second normalization leaves "n" as it is
C28_Witness ==
  /\ nstep = "twice"
  /\ rawName = <<" ", "N", "(R)">>
  /\ normalizedOnce = <<"n">>
  /\ normalizedTwice = <<"n">>

\* C29: a command message whose type is not one of the handled types is answered
\* with {success: false, error}, no exception is thrown, and the verdict, the
\* notification-shown flag and the DOM are left as they were.
C29_UnknownTypeFailsCleanly ==
  [][(response' # response /\ response'.sent /\ response'.to \notin HandledTypes)
       => /\ ~response'.success
          /\ "error" \in DOMAIN response'
          /\ UNCHANGED <<detectionResult, notificationShown, els, showPending, page>>]_vars

\* an unknown message answered while a verdict is held and its notification is
\* in the document
C29_Witness ==
  /\ response = Failure("UNKNOWN", "Unknown message type")
  /\ detectionResult # NullResult
  /\ notificationShown
  /\ \E e \in ElIds : els[e].attached

\* C30: on SHOW_NOTIFICATION, when no notification has been shown in this
\* page-view and the last detection pass left a verdict, the notification is
\* displayed (showNotification() is entered, and with a titled verdict goes on
\* to read the store); when one was already shown or there is no verdict,
\* nothing is displayed and the state is unchanged.
C30_ShowNotificationOnDemand ==
  [][(response' # response /\ response'.sent /\ response'.to = "SHOW_NOTIFICATION")
       => IF ~notificationShown /\ ~detectionResult.isNull
            THEN /\ lastOp'.op = "SHOW_NOTIFICATION"
                 /\ HasTitle(detectionResult) => Len(showPending') = Len(showPending) + 1
            ELSE UNCHANGED <<detectionResult, notificationShown, els, showPending, timers, store>>]_vars

\* the host is a domain of the exclusion list or a subdomain of one
UnderExcludedDomain ==
  \E i \in 1..Len(excludedDomains) :
    LET D == excludedDomains[i]
        n == Len(tabHost) - Len(D)
    IN  \/ tabHost = D
        \/ n >= 2 /\ SubSeq(tabHost, n, Len(tabHost)) = <<".">> \o D

\* C31: on a host that is a domain of the exclusion list or a subdomain of one
\* no detection is run, and on any other host the exclusion check does not stop
\* the extension.
C31_ExclusionCoversDomainAndSubdomains ==
  /\ UnderExcludedDomain => handlers = <<>>
  /\ skipped => UnderExcludedDomain

\* C32: when the store rejects the write of the dismissal record, the failure
\* stops nothing and nothing is tried again: the click hides the notification
\* and arms its removal as it does when the write succeeds, no other timer is
\* armed, and the store is as it was, without a record written by this click.
C32_RejectedWriteOnlyLosesRecord ==
  [][(lastOp'.op \in Clicks /\ lastOp'.show = "rejected" /\ (lastOp' # lastOp \/ els' # els))
       => /\ store' = store
          /\ \E e \in ElIds :
               /\ els[e].attached
               /\ els'[e].attached /\ els'[e].hide
               /\ \E t \in timers' : t.kind = "remove" /\ t.id = e /\ t.delay = FadeOutDelay
          /\ \A t \in timers' \ timers : t.kind = "remove"
          /\ notificationShown' = notificationShown]_vars

\* a rejected write on the close button: the element is fading out, its removal
\* is pending and the URL has no dismissal record
C32_Witness ==
  /\ lastOp = Op("clickClose", "rejected")
  /\ ~store[url].present
  /\ \E e \in ElIds :
       /\ els[e].attached /\ els[e].hide
       /\ \E t \in timers : t.kind = "remove" /\ t.id = e

\* C33: a detection pass has no side effect: from its start to its return
\* detectBrandOnPage leaves the brand catalog (map, records, name list), the
\* dismissal store, the notification-shown flag and the document (the host
\* page, its title and brand evidence, the extension's elements) as they were.
C33_DetectionPassHasNoSideEffect ==
  [][(dstep \in {"idle", "gathered", "voted"})
       => (UNCHANGED <<catalog, brandRecords, brandArray, store, notificationShown,
                       els, page, pageTitle, pageEvidence>>)]_vars

\* a pass over a catalog of two names or more that gathered candidates and
\* returned a verdict
C33_Witness ==
  /\ dstep = "returned"
  /\ brandResult # NoDetection
  /\ Len(brandArray) >= 2
  /\ Len(catalog) >= 2
  /\ Len(candidates) >= 2

\* a suspended showNotification() call goes on and appends its element
ResumedCallAppends ==
  /\ Len(showPending') < Len(showPending)
  /\ lastOp' = Op("showResume", "appended")

\* C34: the test of the notification-shown flag and its setting are atomic: a
\* showNotification() call of the current page-view that was suspended at the
\* read of the dismissal record appends its element only if no call that was in
\* flight with it has set the flag meanwhile, so that of two such calls at most
\* one appends.
C34_CheckAndSetAtomic ==
  [][(ResumedCallAppends /\ Head(showPending).view = navs) => ~notificationShown]_vars

\* C35: a showNotification() call that began before a URL-change reset and is
\* suspended at the read of the dismissal record when the reset happens neither
\* appends an element nor sets the flag afterwards: an element is appended only
\* by a call of the current page-view.
C35_NoAppendByStaleCall ==
  [][ResumedCallAppends => Head(showPending).view = navs]_vars

\* C36: Dismissed is terminal within a page-view: once the user has dismissed
\* the notification, and as long as no URL change and no RE_DETECT happens, no
\* notification is displayed again, whether by a pending retry timer, by a
\* SHOW_NOTIFICATION command or by any other step.
C36_DismissedIsTerminal ==
  [][(dismissed /\ dismissed')
       => \A e \in ElIds : els'[e].attached => els[e].attached]_vars

\* the positions in the catalog of the brands that share the highest number of
\* mentions, when that number is positive
Leaders ==
  {i \in 1..Len(catalog) :
     /\ Mentions(catalog[i]) > 0
     /\ \A j \in 1..Len(catalog) : Mentions(catalog[j]) <= Mentions(catalog[i])}

C38_ThrowingDetectorYieldsZero ==
  (pstep = "done" /\ \E n \in SignalNames : pageSignals[n] = "broken")
    => /\ pdpResult.confidence = 0
       /\ ~pdpResult.isProductPage
       /\ \A n \in pdpResult.signals : pageSignals[n] = "present"

\* the breadcrumb detector throws after price, action button, title and image
\* were found: 70 points of signals are flagged and the result says 0
C38_Witness ==
  /\ pstep = "done"
  /\ pageSignals["breadcrumb"] = "broken"
  /\ {"price", "actionButton", "productImage"} \subseteq pdpResult.signals
  /\ pdpResult.hasTitle
  /\ pdpResult.confidence = 0
  /\ ~pdpResult.isProductPage

\* C39: the per-tab map holds entries only for open tabs: once the tab's
\* onRemoved handler has run and every onUpdated handler started for the tab has
\* finished, the map has no entry for the tab, however the script injection and
\* the closing of the tab interleave.
C39_NoEntryForClosedTab ==
  (~tabOpen /\ \A i \in 1..Len(handlers) : handlers[i].pc = "done")
    => "tab" \notin detectedProducts
====
